---- MODULE Spec2Model ----
(***************************************************************************)
(* Model of the DICOM workflow engine (main.py, webhook_server.py):        *)
(*   - the Orchestrator: process_sheets_application and                    *)
(*     process_single_workflow, one step per collaborator call;            *)
(*   - the Cycle Driver and Polling Scheduler: run_sheets_workflow,        *)
(*     run_local_workflow, run_continuous_mode;                            *)
(*   - the Push Dispatcher: handle_upload_notification,                    *)
(*     process_upload_async, and the wait loop of main().                  *)
(* Collaborators (downloader, processor, sender, transfer_manager) are     *)
(* outside the repository: every call to one returns any value of its      *)
(* result shape or raises.                                                 *)
(***************************************************************************)
EXTENDS Integers, Sequences, FiniteSets, TLC

\* ---------------------------------------------------------------- bounds
MaxFiles == 5        \* most artifacts one transform produces
MaxRetries == 3      \* largest max_retry_attempts explored
MaxPending == 2      \* most pending items one cycle sees
MaxCycles == 2       \* cycles of run_continuous_mode explored
MaxInterval == 2     \* largest check_interval (seconds) explored
MaxDuration == 5     \* longest cycle duration explored, in half seconds
MaxRequests == 2     \* POST /webhook/upload requests explored
MaxSignals == 2      \* termination signals explored

\* ------------------------------------------------------------- variables
VARIABLES
    \* Orchestrator, one invocation
    variant,              \* "sheets": process_sheets_application, "single": process_single_workflow
    max_retry_attempts,   \* config['processing']['max_retry_attempts']
    opc,                  \* position inside the invocation
    attempt,              \* loop variable of the retry loop
    send_success,         \* local send_success
    processed_files,      \* len(processed_files); -1 before the transform has produced a list
    send_result,          \* last send_result: successful, total_files
    ret,                  \* "none" | "True" | "False" | "raised"
    trace,                \* collaborator calls made so far, in order
    \* DicomWorkflowManager fields shared by all paths
    running, total_processed, total_successful, total_failed,
    \* Cycle Driver and Polling Scheduler
    use_sheets_mode, check_interval, spc, cycle_count, stats, todo,
    sleep_left, sleep_frac, cyc, hist,
    \* Push Dispatcher and main()
    enable_auth, workflow_manager, req, thread, mpc,
    \* main() in single-run mode
    once,                 \* args.once
    exit_code,            \* what main() returns to sys.exit; -1 while it runs
    \* GET /webhook/status
    status,               \* the request in progress and the dict it builds
    \* signal delivery
    signals               \* termination signals received so far (observation only)

orchVars == <<variant, max_retry_attempts, opc, attempt, send_success,
              processed_files, send_result, ret, trace>>
statVars == <<total_processed, total_successful, total_failed>>
schedVars == <<use_sheets_mode, check_interval, spc, cycle_count, stats, todo,
               sleep_left, sleep_frac, cyc, hist>>
pushVars == <<enable_auth, workflow_manager, req, thread, mpc>>
mainVars == <<once, exit_code>>
vars == <<orchVars, running, statVars, schedVars, pushVars, mainVars, status, signals>>

\* ------------------------------------------------------------- helpers
RECURSIVE Count(_, _)
Count(s, e) ==
    IF s = <<>> THEN 0
    ELSE (IF Head(s) = e THEN 1 ELSE 0) + Count(Tail(s), e)

Called(e) == trace' = Append(trace, e)
Return(v) == opc' = "done" /\ ret' = v

NoResult == [successful |-> 0, total_files |-> 0]

\* stats of run_sheets_workflow (lines 496-502) and run_local_workflow
\* (lines 581-588); pending stands for pending_applications / downloaded_files.
FreshStats ==
    [pending |-> 0, processed_files |-> 0,
     successful_transfers |-> 0, failed_transfers |-> 0]

\* What the cycle in flight has done to its collaborators (observation only).
\* cleaned: cleanup_old_files was called. elapsed is cycle_duration (line
\* 791), -1 until it is taken; slept is the time spent in time.sleep after
\* the cycle; both in half seconds.
FreshCycle ==
    [probe |-> "none", notified |-> 0, pending_queries |-> 0,
     orchestrated |-> 0, cleaned |-> FALSE, propagate |-> FALSE,
     finalized |-> FALSE, elapsed |-> -1, slept |-> 0]

\* Sums over the cycles run so far (observation only): the finalized CycleStats
\* of every cycle, the part of them that belongs to cycles whose
\* run_full_workflow raised, and the number of those cycles.
ZeroHist ==
    [processed |-> 0, successful |-> 0, failed |-> 0,
     lost_processed |-> 0, lost_successful |-> 0, lost_failed |-> 0,
     raised |-> 0]

\* The three fields handle_upload_notification requires (line 144).
required_fields == {"identifier", "filename", "row_number"}

\* A POST request as the handler sees it. signature: the X-Webhook-Signature
\* header, "absent", "valid", "invalid" (ASCII, wrong digest) or "non_ascii".
\* kind: what request.get_json() yields, "unparsable" (it raises), "falsy"
\* (null, false, 0, "", [], {}), "scalar" (a non-zero number or true),
\* "str_or_list" (a non-empty JSON string or array) or "object"; fields: the
\* required fields that `field in data` finds.
Signatures == {"absent", "valid", "invalid", "non_ascii"}
Bodies ==
    [kind : {"unparsable", "falsy", "scalar"}, fields : {{}}]
    \cup [kind : {"str_or_list", "object"}, fields : SUBSET required_fields]

\* The last request handled, whether the manager was wired then, and the
\* answer (observation only); n counts the requests handled.
NoRequest ==
    [signature |-> "absent", body |-> [kind |-> "falsy", fields |-> {}],
     wired |-> FALSE, code |-> 0, spawned |-> FALSE, n |-> 0]

\* One dispatch thread per request: "none" before the request, then
\* "unspawned" (answered without a thread), "started", "orchestrating",
\* "done" or "killed"; outcome is what process_upload_async saw, or where
\* the end of the process found the thread.
\* identifier is data['identifier'] of a dispatch that reaches the
\* Orchestrator; artifacts is what the invocation has in the processor's work
\* folder, config['directories']['processing'], which all invocations share
\* (lines 173-175 of main.py): "none", "present" (transformed, transmit not
\* finished), "sent", or "wiped" (removed by another invocation while present).
NoThread ==
    [state |-> "none", object |-> FALSE, outcome |-> "none",
     identifier |-> "none", artifacts |-> "none"]

\* The identifiers notifications carry.
Identifiers == {"id1", "id2"}

\* ===================================================== Orchestrator
\* success_rate = (successful / total_files) * 100; success_rate >= 80.
\* The float comparison agrees with the integer one for every total_files
\* below 2000, far above MaxFiles.
\* (the comparison made strict)
RateAcceptableStrict(successful, total_files) == successful * 100 > 80 * total_files
RateAcceptable(successful, total_files) == successful * 100 >= 80 * total_files

\* The if / elif / else of lines 391-417: does this attempt set send_success?
SheetsSatisfied(successful, total_files) ==
    IF successful = total_files THEN TRUE
    ELSE IF successful > 0 THEN RateAcceptable(successful, total_files)
    ELSE FALSE

\* The if of line 256.
SingleSatisfied(successful, total_files) == successful = total_files

\* for attempt in range(max_retries): the position after iteration a ends
\* without break.
\* (the loop left without the test of send_success at lines 270, 431)
LoopNextNoCheck(a) ==
    IF a + 1 < max_retry_attempts THEN "send"
    ELSE IF variant = "sheets" THEN "ack" ELSE "complete"
\* (range(max_retries + 1))
LoopNextOneMore(a) == IF a < max_retry_attempts THEN "send" ELSE "send_failed"
LoopNext(a) == IF a + 1 < max_retry_attempts THEN "send" ELSE "send_failed"

\* Entry of the for loop.
LoopEnter == IF 0 < max_retry_attempts THEN "send" ELSE "send_failed"

\* if attempt < max_retries - 1: time.sleep(retry_delay)
SleepsAfter(a) == a < max_retry_attempts - 1

\* After the break of a satisfied attempt and the test of line 431 comes
\* step 6, update_transmission_time (lines 436-439).
\* (the Drive file deleted first)
AfterSatisfiedSendDeletesFirst == "delete_drive"
AfterSatisfiedSend == "ack"

OrchUnchanged ==
    UNCHANGED <<running, statVars, schedVars, pushVars, mainVars, status, signals>>

\* The tests "if not file_id" (line 334) and "if not local_path" (line 342)
\* on a value the collaborator returned.
\* (the tests left out)
FetchFailedIgnored(r) == FALSE
FetchFailed(r) == r = "none"

\* ---- process_sheets_application
\* A call that returned nothing is recorded with the suffix _none.
find_file_in_drive ==
    /\ variant = "sheets" /\ opc = "find"
    /\ \E r \in {"ok", "none", "raise"} :
         /\ Called(IF r = "none" THEN "find_file_in_drive_none"
                                 ELSE "find_file_in_drive")
         /\ CASE r = "raise" -> opc' = "except" /\ ret' = ret
              [] r # "raise" /\ FetchFailed(r) -> Return("False")
              [] OTHER -> opc' = "download" /\ ret' = ret
    /\ UNCHANGED <<variant, max_retry_attempts, attempt, send_success,
                   processed_files, send_result>>
    /\ OrchUnchanged

download_file_from_drive ==
    /\ variant = "sheets" /\ opc = "download"
    /\ \E r \in {"ok", "none", "raise"} :
         /\ Called(IF r = "none" THEN "download_file_from_drive_none"
                                 ELSE "download_file_from_drive")
         /\ CASE r = "raise" -> opc' = "except" /\ ret' = ret
              [] r # "raise" /\ FetchFailed(r) -> Return("False")
              [] OTHER -> opc' = "file_info" /\ ret' = ret
    /\ UNCHANGED <<variant, max_retry_attempts, attempt, send_success,
                   processed_files, send_result>>
    /\ OrchUnchanged

create_file_info_for_processing ==
    /\ variant = "sheets" /\ opc = "file_info"
    /\ Called("create_file_info_for_processing")
    /\ \E r \in {"ok", "raise"} :
         opc' = IF r = "ok" THEN "process" ELSE "except"
    /\ UNCHANGED <<variant, max_retry_attempts, attempt, send_success,
                   processed_files, send_result, ret>>
    /\ OrchUnchanged

\* processor.process_file and the two checks after it (lines 354-369).
sheets_process_file ==
    /\ variant = "sheets" /\ opc = "process"
    /\ Called("process_file")
    /\ \/ /\ opc' = "except"                       \* process_file raises
          /\ UNCHANGED processed_files
       \/ /\ opc' = "cleanup_failed"               \* success is false
          /\ UNCHANGED processed_files
       \/ \E n \in 0..MaxFiles :
            /\ processed_files' = n
            /\ opc' = IF n = 0 THEN "cleanup_failed" ELSE LoopEnter
    /\ UNCHANGED <<variant, max_retry_attempts, attempt, send_success,
                   send_result, ret>>
    /\ OrchUnchanged

\* cleanup_local_file followed by return False (lines 358-359, 366-367, 433-434).
sheets_cleanup_and_fail ==
    /\ variant = "sheets" /\ opc \in {"cleanup_failed", "send_failed"}
    /\ Called("cleanup_local_file")
    /\ \/ Return("False")
       \/ opc' = "except" /\ ret' = ret
    /\ UNCHANGED <<variant, max_retry_attempts, attempt, send_success,
                   processed_files, send_result>>
    /\ OrchUnchanged

\* One iteration of the retry loop, lines 376-429.
sheets_send ==
    /\ variant = "sheets" /\ opc = "send"
    /\ Called("send")
    /\ \/ /\ opc' = "except"
          /\ UNCHANGED <<attempt, send_success, send_result>>
       \/ \E s \in 0..processed_files :
            LET t == processed_files IN
            /\ send_result' = [successful |-> s, total_files |-> t]
            /\ IF SheetsSatisfied(s, t)
               THEN /\ send_success' = TRUE
                    /\ opc' = AfterSatisfiedSend
                    /\ UNCHANGED attempt
               ELSE /\ UNCHANGED send_success
                    /\ IF s > 0
                       THEN /\ attempt' = attempt + 1
                            /\ opc' = LoopNext(attempt)
                       ELSE IF SleepsAfter(attempt)
                            THEN /\ opc' = "sleep"
                                 /\ UNCHANGED attempt
                            ELSE /\ attempt' = attempt + 1
                                 /\ opc' = LoopNext(attempt)
    /\ UNCHANGED <<variant, max_retry_attempts, processed_files, ret>>
    /\ OrchUnchanged

\* time.sleep(retry_delay), then the next iteration (both variants).
retry_sleep ==
    /\ opc = "sleep"
    /\ Called("sleep")
    /\ attempt' = attempt + 1
    /\ opc' = LoopNext(attempt)
    /\ UNCHANGED <<variant, max_retry_attempts, send_success,
                   processed_files, send_result, ret>>
    /\ OrchUnchanged

\* Lines 436-439: a false return only logs a warning.
update_transmission_time ==
    /\ variant = "sheets" /\ opc = "ack"
    /\ \E r \in {"true", "false", "raise"} :
         /\ Called(IF r = "true" THEN "update_transmission_time"
                   ELSE "update_transmission_time_failed")
         /\ opc' = IF r = "raise" THEN "except" ELSE "delete_drive"
    /\ UNCHANGED <<variant, max_retry_attempts, attempt, send_success,
                   processed_files, send_result, ret>>
    /\ OrchUnchanged

\* Lines 443-446 with 662-724: every error is caught and logged.
delete_drive_file_with_user_auth ==
    /\ variant = "sheets" /\ opc = "delete_drive"
    /\ \E r \in {"deleted", "skipped"} :
         Called(IF r = "deleted" THEN "delete_drive_file" ELSE "delete_drive_skipped")
    /\ opc' = "cleanup_local"
    /\ UNCHANGED <<variant, max_retry_attempts, attempt, send_success,
                   processed_files, send_result, ret>>
    /\ OrchUnchanged

\* Line 450: not inside an inner try.
sheets_cleanup_local_file ==
    /\ variant = "sheets" /\ opc = "cleanup_local"
    /\ Called("cleanup_local_file")
    /\ \E r \in {"ok", "raise"} :
         opc' = IF r = "ok" THEN "rmtree" ELSE "except"
    /\ UNCHANGED <<variant, max_retry_attempts, attempt, send_success,
                   processed_files, send_result, ret>>
    /\ OrchUnchanged

\* Lines 452-481: both rmtree calls are wrapped; then return True.
sheets_rmtree_and_succeed ==
    /\ variant = "sheets" /\ opc = "rmtree"
    /\ Called("rmtree")
    /\ Return("True")
    /\ UNCHANGED <<variant, max_retry_attempts, attempt, send_success,
                   processed_files, send_result>>
    /\ OrchUnchanged

\* Lines 483-485.
sheets_except ==
    /\ variant = "sheets" /\ opc = "except"
    /\ Return("False")
    /\ UNCHANGED <<variant, max_retry_attempts, attempt, send_success,
                   processed_files, send_result, trace>>
    /\ OrchUnchanged

process_sheets_application ==
    \/ find_file_in_drive
    \/ download_file_from_drive
    \/ create_file_info_for_processing
    \/ sheets_process_file
    \/ sheets_cleanup_and_fail
    \/ sheets_send
    \/ update_transmission_time
    \/ delete_drive_file_with_user_auth
    \/ sheets_cleanup_local_file
    \/ sheets_rmtree_and_succeed
    \/ sheets_except

\* ---- process_single_workflow
\* processor.process_file and the two checks after it (lines 228-244).
single_process_file ==
    /\ variant = "single" /\ opc = "process"
    /\ Called("process_file")
    /\ \/ /\ opc' = "except" /\ ret' = ret         \* process_file raises
          /\ UNCHANGED processed_files
       \/ /\ opc' = "notify_failed" /\ ret' = ret  \* success is false
          /\ UNCHANGED processed_files
       \/ \E n \in 0..MaxFiles :
            /\ processed_files' = n
            /\ IF n = 0 THEN Return("False")
               ELSE opc' = LoopEnter /\ ret' = ret
    /\ UNCHANGED <<variant, max_retry_attempts, attempt, send_success, send_result>>
    /\ OrchUnchanged

\* send_error_notification followed by return False (lines 232-237, 272-277).
single_notify_and_fail ==
    /\ variant = "single" /\ opc \in {"notify_failed", "send_failed"}
    /\ Called("send_error_notification")
    /\ \/ Return("False")
       \/ opc' = "except" /\ ret' = ret
    /\ UNCHANGED <<variant, max_retry_attempts, attempt, send_success,
                   processed_files, send_result>>
    /\ OrchUnchanged

\* One iteration of the retry loop, lines 251-268.
single_send ==
    /\ variant = "single" /\ opc = "send"
    /\ Called("send")
    /\ \/ /\ opc' = "except"
          /\ UNCHANGED <<attempt, send_success, send_result>>
       \/ \E s \in 0..processed_files :
            LET t == processed_files IN
            /\ send_result' = [successful |-> s, total_files |-> t]
            /\ IF SingleSatisfied(s, t)
               THEN /\ send_success' = TRUE
                    /\ opc' = "complete"
                    /\ UNCHANGED attempt
               ELSE /\ UNCHANGED send_success
                    /\ IF SleepsAfter(attempt)
                       THEN /\ opc' = "sleep"
                            /\ UNCHANGED attempt
                       ELSE /\ attempt' = attempt + 1
                            /\ opc' = LoopNext(attempt)
    /\ UNCHANGED <<variant, max_retry_attempts, processed_files, ret>>
    /\ OrchUnchanged

\* Lines 280, 302-304: a false return fails the item.
complete_transfer_process ==
    /\ variant = "single" /\ opc = "complete"
    /\ Called("complete_transfer_process")
    /\ \E r \in {"true", "false", "raise"} :
         CASE r = "true" -> opc' = "delete_source" /\ ret' = ret
           [] r = "false" -> Return("False")
           [] r = "raise" -> opc' = "except" /\ ret' = ret
    /\ UNCHANGED <<variant, max_retry_attempts, attempt, send_success,
                   processed_files, send_result>>
    /\ OrchUnchanged

\* Lines 284-301: delete_source_file and rmtree are wrapped; then return True.
delete_source_file ==
    /\ variant = "single" /\ opc = "delete_source"
    /\ \E r \in {"deleted", "raise"} :
         Called(IF r = "deleted" THEN "delete_source_file" ELSE "delete_source_failed")
    /\ opc' = "rmtree"
    /\ UNCHANGED <<variant, max_retry_attempts, attempt, send_success,
                   processed_files, send_result, ret>>
    /\ OrchUnchanged

single_rmtree_and_succeed ==
    /\ variant = "single" /\ opc = "rmtree"
    /\ Called("rmtree")
    /\ Return("True")
    /\ UNCHANGED <<variant, max_retry_attempts, attempt, send_success,
                   processed_files, send_result>>
    /\ OrchUnchanged

\* Lines 306-313: the handler notifies; an error of the Notifier leaves the
\* function as an exception.
single_except ==
    /\ variant = "single" /\ opc = "except"
    /\ Called("send_error_notification")
    /\ \/ Return("False")
       \/ Return("raised")
    /\ UNCHANGED <<variant, max_retry_attempts, attempt, send_success,
                   processed_files, send_result>>
    /\ OrchUnchanged

process_single_workflow ==
    \/ single_process_file
    \/ single_notify_and_fail
    \/ single_send
    \/ complete_transfer_process
    \/ delete_source_file
    \/ single_rmtree_and_succeed
    \/ single_except

\* ---- one invocation of the Orchestrator under every configuration
IdleSched ==
    /\ use_sheets_mode = TRUE /\ check_interval = 1 /\ spc = "idle"
    /\ cycle_count = 0 /\ stats = FreshStats /\ todo = 0
    /\ sleep_left = 0 /\ sleep_frac = 0 /\ cyc = FreshCycle /\ hist = ZeroHist

IdlePush ==
    /\ enable_auth = FALSE /\ workflow_manager = FALSE
    /\ req = NoRequest /\ thread = [r \in 1..MaxRequests |-> NoThread] /\ mpc = "idle"

ZeroStats ==
    /\ running = TRUE /\ signals = 0
    /\ total_processed = 0 /\ total_successful = 0 /\ total_failed = 0

\* The statistics dict of webhook_status (lines 237-241); -1: key not set.
NoStatus ==
    [pc |-> "idle", total_processed |-> -1, total_successful |-> -1,
     total_failed |-> -1]

IdleMain == once = FALSE /\ exit_code = -1 /\ status = NoStatus

\* config['processing']['max_retry_attempts'] is read unvalidated (lines
\* 247, 372): zero and negative values are possible configurations.
LeastRetries == -1

InitOrch ==
    /\ variant \in {"sheets", "single"}
    /\ max_retry_attempts \in LeastRetries..MaxRetries
    /\ opc = IF variant = "sheets" THEN "find" ELSE "process"
    /\ attempt = 0
    /\ send_success = FALSE
    /\ processed_files = -1
    /\ send_result = NoResult
    /\ ret = "none"
    /\ trace = <<>>
    /\ ZeroStats /\ IdleSched /\ IdlePush /\ IdleMain

NextOrch ==
    \/ process_sheets_application
    \/ process_single_workflow
    \/ retry_sleep

SpecOrch == InitOrch /\ [][NextOrch]_vars

\* ============================== Cycle Driver and Polling Scheduler
IdleOrch ==
    /\ variant = "sheets" /\ max_retry_attempts = 1 /\ opc = "idle"
    /\ attempt = 0 /\ send_success = FALSE /\ processed_files = -1
    /\ send_result = NoResult /\ ret = "none" /\ trace = <<>>

\* What one Orchestrator invocation hands back to its caller:
\* process_sheets_application returns from every path (lines 483-485),
\* process_single_workflow can leave by an exception of its handler
\* (lines 306-313).
OrchOutcomes(sheets) ==
    IF sheets THEN {"True", "False"} ELSE {"True", "False", "raised"}

SchedUnchanged == UNCHANGED <<orchVars, pushVars, mainVars, status, signals>>

\* self.running = False (line 62).
\* (the flag flipped instead of cleared)
RunningToggled == ~running
RunningCleared == FALSE

\* signal_handler (lines 59-62), registered for SIGINT and SIGTERM
\* (lines 51-52).
signal_handler ==
    /\ signals < MaxSignals
    /\ signals' = signals + 1
    /\ running' = RunningCleared
    /\ UNCHANGED <<orchVars, statVars, schedVars, pushVars, mainVars, status>>

\* while self.running (line 757).
\* (the test negated)
StartsCycleNegated == ~running
StartsCycle == running

\* The loop test; a true test enters the cycle: cycle_count += 1 and
\* run_full_workflow builds its stats (lines 757-765, 496-502, 581-588).
loop_test ==
    /\ spc = "while"
    /\ IF StartsCycle
       THEN /\ cycle_count < MaxCycles
            /\ cycle_count' = cycle_count + 1
            /\ spc' = "probe"
            /\ stats' = FreshStats
            /\ cyc' = FreshCycle
            /\ todo' = 0
       ELSE /\ spc' = "stopped"
            /\ UNCHANGED <<cycle_count, stats, cyc, todo>>
    /\ UNCHANGED <<use_sheets_mode, check_interval, sleep_left, sleep_frac, hist>>
    /\ UNCHANGED <<running, statVars>>
    /\ SchedUnchanged

\* `return stats` inside the try (lines 517-519, 603-605): the finally block
\* runs before the function returns.
\* (a return that leaves the function at once)
EarlyReturnSkipsFinally == IF once THEN "once_return" ELSE "update_processed"
EarlyReturn == "finally"

\* ---- run_sheets_workflow (lines 504-543)
\* A false probe raises inside the try; the handler only logs (lines 534-535).
sheets_test_connection ==
    /\ use_sheets_mode /\ spc = "probe"
    /\ \E r \in {"true", "false", "raise"} :
         /\ cyc' = [cyc EXCEPT !.probe = r]
         /\ spc' = IF r = "true" THEN "pending" ELSE "finally"
    /\ UNCHANGED <<use_sheets_mode, check_interval, cycle_count, stats, todo,
                   sleep_left, sleep_frac, hist>>
    /\ UNCHANGED <<running, statVars>>
    /\ SchedUnchanged

\* Lines 513-519; an error of the query is logged by the handler.
get_pending_applications ==
    /\ use_sheets_mode /\ spc = "pending"
    /\ cyc' = [cyc EXCEPT !.pending_queries = @ + 1]
    /\ \/ \E n \in 0..MaxPending :
            /\ stats' = [stats EXCEPT !.pending = n]
            /\ todo' = n
            /\ spc' = IF n = 0 THEN EarlyReturn ELSE "items"
       \/ /\ spc' = "finally"
          /\ UNCHANGED <<stats, todo>>
    /\ UNCHANGED <<use_sheets_mode, check_interval, cycle_count,
                   sleep_left, sleep_frac, hist>>
    /\ UNCHANGED <<running, statVars>>
    /\ SchedUnchanged

\* (processed_files counted for successful items only)
CountedSuccessOnly(st, o) ==
    IF o = "True"
    THEN [st EXCEPT !.successful_transfers = @ + 1, !.processed_files = @ + 1]
    ELSE [st EXCEPT !.failed_transfers = @ + 1]

\* One iteration of the item loop (lines 522-532, 609-619).
Counted(st, o) ==
    IF o = "True"
    THEN [st EXCEPT !.successful_transfers = @ + 1, !.processed_files = @ + 1]
    ELSE [st EXCEPT !.failed_transfers = @ + 1, !.processed_files = @ + 1]

sheets_item ==
    /\ use_sheets_mode /\ spc = "items" /\ todo > 0
    /\ \E o \in OrchOutcomes(TRUE) :
         /\ cyc' = [cyc EXCEPT !.orchestrated = @ + 1]
         /\ stats' = Counted(stats, o)
         /\ todo' = todo - 1
         /\ spc' = IF todo = 1 THEN "finally" ELSE "items"
    /\ UNCHANGED <<use_sheets_mode, check_interval, cycle_count,
                   sleep_left, sleep_frac, hist>>
    /\ UNCHANGED <<running, statVars>>
    /\ SchedUnchanged

\* ---- run_local_workflow (lines 590-643)
local_test_connection ==
    /\ ~use_sheets_mode /\ spc = "probe"
    /\ \E r \in {"true", "false", "raise"} :
         /\ cyc' = [cyc EXCEPT !.probe = r]
         /\ spc' = IF r = "true" THEN "pending" ELSE "local_except"
    /\ UNCHANGED <<use_sheets_mode, check_interval, cycle_count, stats, todo,
                   sleep_left, sleep_frac, hist>>
    /\ UNCHANGED <<running, statVars>>
    /\ SchedUnchanged

download_pending_files ==
    /\ ~use_sheets_mode /\ spc = "pending"
    /\ cyc' = [cyc EXCEPT !.pending_queries = @ + 1]
    /\ \/ \E n \in 0..MaxPending :
            /\ stats' = [stats EXCEPT !.pending = n]
            /\ todo' = n
            /\ spc' = IF n = 0 THEN EarlyReturn ELSE "items"
       \/ /\ spc' = "local_except"
          /\ UNCHANGED <<stats, todo>>
    /\ UNCHANGED <<use_sheets_mode, check_interval, cycle_count,
                   sleep_left, sleep_frac, hist>>
    /\ UNCHANGED <<running, statVars>>
    /\ SchedUnchanged

local_item ==
    /\ ~use_sheets_mode /\ spc = "items" /\ todo > 0
    /\ \E o \in OrchOutcomes(FALSE) :
         /\ cyc' = [cyc EXCEPT !.orchestrated = @ + 1]
         /\ IF o = "raised"
            THEN /\ spc' = "local_except"
                 /\ UNCHANGED <<stats, todo>>
            ELSE /\ stats' = Counted(stats, o)
                 /\ todo' = todo - 1
                 /\ spc' = IF todo = 1 THEN "local_cleanup" ELSE "items"
    /\ UNCHANGED <<use_sheets_mode, check_interval, cycle_count,
                   sleep_left, sleep_frac, hist>>
    /\ UNCHANGED <<running, statVars>>
    /\ SchedUnchanged

\* Lines 621-626: cleanup_old_files catches its own errors (lines 645-660),
\* the clean_downloads call after it does not.
local_cleanup ==
    /\ ~use_sheets_mode /\ spc = "local_cleanup"
    /\ cyc' = [cyc EXCEPT !.cleaned = TRUE]
    /\ \E r \in {"ok", "raise"} :
         spc' = IF r = "ok" THEN "finally" ELSE "local_except"
    /\ UNCHANGED <<use_sheets_mode, check_interval, cycle_count, stats, todo,
                   sleep_left, sleep_frac, hist>>
    /\ UNCHANGED <<running, statVars>>
    /\ SchedUnchanged

\* Lines 628-635: the handler notifies; an error of the Notifier leaves
\* run_local_workflow after the finally block.
local_except ==
    /\ ~use_sheets_mode /\ spc = "local_except"
    /\ \E r \in {"ok", "raise"} :
         cyc' = [cyc EXCEPT !.notified = @ + 1, !.propagate = (r = "raise")]
    /\ spc' = "finally"
    /\ UNCHANGED <<use_sheets_mode, check_interval, cycle_count, stats, todo,
                   sleep_left, sleep_frac, hist>>
    /\ UNCHANGED <<running, statVars>>
    /\ SchedUnchanged

\* Where run_full_workflow hands control back: to the cycle of
\* run_continuous_mode (lines 765-784) or to the args.once branch of main()
\* (lines 880-888, 953-955).
Returns == IF once THEN "once_return" ELSE "update_processed"
Raises == IF once THEN "once_except" ELSE "cycle_except"

\* The finally block (lines 537-543, 637-643): CycleStats is finalized and
\* logged, then the function returns stats or lets the exception go on.
finally_block ==
    /\ spc = "finally"
    /\ cyc' = [cyc EXCEPT !.finalized = TRUE]
    /\ LET lost == cyc.propagate IN
       hist' = [hist EXCEPT
         !.processed = @ + stats.processed_files,
         !.successful = @ + stats.successful_transfers,
         !.failed = @ + stats.failed_transfers,
         !.lost_processed = @ + (IF lost THEN stats.processed_files ELSE 0),
         !.lost_successful = @ + (IF lost THEN stats.successful_transfers ELSE 0),
         !.lost_failed = @ + (IF lost THEN stats.failed_transfers ELSE 0),
         !.raised = @ + (IF lost THEN 1 ELSE 0)]
    /\ spc' = IF cyc.propagate THEN Raises ELSE Returns
    /\ UNCHANGED <<use_sheets_mode, check_interval, cycle_count, stats, todo,
                   sleep_left, sleep_frac>>
    /\ UNCHANGED <<running, statVars>>
    /\ SchedUnchanged

\* ---- run_continuous_mode (lines 757-829)
\* (the cycle's count assigned in place of added)
AddedReplaces(total, st, field) == st[field]

\* Lines 768-770, one statement each.
Added(total, st, field) == total + st[field]

update_processed ==
    /\ spc = "update_processed"
    /\ total_processed' = Added(total_processed, stats, "processed_files")
    /\ spc' = "update_successful"
    /\ UNCHANGED <<total_successful, total_failed, running>>
    /\ UNCHANGED <<use_sheets_mode, check_interval, cycle_count, stats, todo,
                   sleep_left, sleep_frac, cyc, hist>>
    /\ SchedUnchanged

update_successful ==
    /\ spc = "update_successful"
    /\ total_successful' = Added(total_successful, stats, "successful_transfers")
    /\ spc' = "update_failed"
    /\ UNCHANGED <<total_processed, total_failed, running>>
    /\ UNCHANGED <<use_sheets_mode, check_interval, cycle_count, stats, todo,
                   sleep_left, sleep_frac, cyc, hist>>
    /\ SchedUnchanged

update_failed ==
    /\ spc = "update_failed"
    /\ total_failed' = Added(total_failed, stats, "failed_transfers")
    /\ spc' = "post"
    /\ UNCHANGED <<total_processed, total_successful, running>>
    /\ UNCHANGED <<use_sheets_mode, check_interval, cycle_count, stats, todo,
                   sleep_left, sleep_frac, cyc, hist>>
    /\ SchedUnchanged

\* Lines 782-784.
cycle_except ==
    /\ spc = "cycle_except"
    /\ total_failed' = total_failed + 1
    /\ spc' = "post"
    /\ UNCHANGED <<total_processed, total_successful, running>>
    /\ UNCHANGED <<use_sheets_mode, check_interval, cycle_count, stats, todo,
                   sleep_left, sleep_frac, cyc, hist>>
    /\ SchedUnchanged

\* int(sleep_time) whole slices (line 803) and sleep_time % 1 (lines
\* 809-810), for a sleep_time in half seconds.
WholeSlices(sleep_time) == sleep_time \div 2
\* (the fractional sleep left out)
FractionDropped(sleep_time) == 0
Fraction(sleep_time) == sleep_time % 2

\* Lines 786-812. Durations are counted in half seconds; d is cycle_duration.
after_cycle ==
    /\ spc = "post"
    /\ IF ~running
       THEN /\ spc' = "stopped"
            /\ UNCHANGED <<sleep_left, sleep_frac, cyc>>
       ELSE \E d \in 0..MaxDuration :
              /\ cyc' = [cyc EXCEPT !.elapsed = d]
              /\ IF d < 2 * check_interval
                 THEN /\ sleep_left' = WholeSlices(2 * check_interval - d)
                      /\ sleep_frac' = Fraction(2 * check_interval - d)
                      /\ spc' = "sleep_loop"
                 ELSE /\ sleep_left' = 0
                      /\ sleep_frac' = 0
                      /\ spc' = "while"
    /\ UNCHANGED <<use_sheets_mode, check_interval, cycle_count, stats, todo,
                   hist>>
    /\ UNCHANGED <<running, statVars>>
    /\ SchedUnchanged

\* if not self.running: break (lines 804-805).
\* (the slice loop without the check)
SliceBreaksNever == FALSE
SliceBreaks == ~running

\* Lines 803-806: the head of the slice loop; a slice that starts is slept whole.
sleep_slice ==
    /\ spc = "sleep_loop"
    /\ spc' = IF sleep_left > 0 /\ ~SliceBreaks THEN "sleeping" ELSE "fraction"
    /\ UNCHANGED <<use_sheets_mode, check_interval, cycle_count, stats, todo,
                   sleep_left, sleep_frac, cyc, hist>>
    /\ UNCHANGED <<running, statVars>>
    /\ SchedUnchanged

\* time.sleep(1) returns.
sleep_slice_end ==
    /\ spc = "sleeping"
    /\ sleep_left' = sleep_left - 1
    /\ cyc' = [cyc EXCEPT !.slept = @ + 2]
    /\ spc' = "sleep_loop"
    /\ UNCHANGED <<use_sheets_mode, check_interval, cycle_count, stats, todo,
                   sleep_frac, hist>>
    /\ UNCHANGED <<running, statVars>>
    /\ SchedUnchanged

\* Lines 809-810.
sleep_fraction ==
    /\ spc = "fraction"
    /\ spc' = IF running /\ sleep_frac > 0 THEN "sleeping_fraction" ELSE "while"
    /\ UNCHANGED <<use_sheets_mode, check_interval, cycle_count, stats, todo,
                   sleep_left, sleep_frac, cyc, hist>>
    /\ UNCHANGED <<running, statVars>>
    /\ SchedUnchanged

sleep_fraction_end ==
    /\ spc = "sleeping_fraction"
    /\ sleep_frac' = 0
    /\ cyc' = [cyc EXCEPT !.slept = @ + sleep_frac]
    /\ spc' = "while"
    /\ UNCHANGED <<use_sheets_mode, check_interval, cycle_count, stats, todo,
                   sleep_left, hist>>
    /\ UNCHANGED <<running, statVars>>
    /\ SchedUnchanged

run_sheets_workflow ==
    \/ sheets_test_connection
    \/ get_pending_applications
    \/ sheets_item

run_local_workflow ==
    \/ local_test_connection
    \/ download_pending_files
    \/ local_item
    \/ local_cleanup
    \/ local_except

run_continuous_mode ==
    \/ loop_test
    \/ run_sheets_workflow
    \/ run_local_workflow
    \/ finally_block
    \/ update_processed
    \/ update_successful
    \/ update_failed
    \/ cycle_except
    \/ after_cycle
    \/ sleep_slice
    \/ sleep_slice_end
    \/ sleep_fraction
    \/ sleep_fraction_end

InitSched ==
    /\ use_sheets_mode \in BOOLEAN
    /\ check_interval \in 1..MaxInterval
    /\ spc = "while"
    /\ cycle_count = 0 /\ stats = FreshStats /\ todo = 0
    /\ sleep_left = 0 /\ sleep_frac = 0 /\ cyc = FreshCycle /\ hist = ZeroHist
    /\ ZeroStats /\ IdleOrch /\ IdlePush /\ IdleMain

NextSched ==
    \/ run_continuous_mode
    \/ signal_handler

SpecSched == InitSched /\ [][NextSched]_vars

\* The scheduler's thread keeps running and every call it makes returns or
\* raises: each step of run_continuous_mode that is possible is eventually
\* taken. Signals may or may not arrive. The interval is the shortest one.
InitSchedFair == InitSched /\ check_interval = 1

SpecSchedFair ==
    InitSchedFair /\ [][NextSched]_vars /\ WF_vars(run_continuous_mode)

\* ============================================= main() with --once
\* Lines 883-888.
ExitCode(st) ==
    IF st.failed_transfers = 0 THEN 0
    ELSE IF st.successful_transfers > 0 THEN 2
    ELSE 1

\* stats = workflow_manager.run_full_workflow() (line 880): the call.
once_call ==
    /\ once /\ spc = "once"
    /\ spc' = "probe"
    /\ stats' = FreshStats
    /\ cyc' = FreshCycle
    /\ todo' = 0
    /\ UNCHANGED <<use_sheets_mode, check_interval, cycle_count,
                   sleep_left, sleep_frac, hist>>
    /\ UNCHANGED <<running, statVars>>
    /\ SchedUnchanged

\* The call returned stats; lines 883-888 pick the exit code.
once_return ==
    /\ once /\ spc = "once_return"
    /\ exit_code' = ExitCode(stats)
    /\ spc' = "exited"
    /\ UNCHANGED <<use_sheets_mode, check_interval, cycle_count, stats, todo,
                   sleep_left, sleep_frac, cyc, hist>>
    /\ UNCHANGED <<running, statVars, orchVars, pushVars, once, status, signals>>

\* The call raised; the handler of lines 953-955 returns 1.
once_except ==
    /\ once /\ spc = "once_except"
    /\ exit_code' = 1
    /\ spc' = "exited"
    /\ UNCHANGED <<use_sheets_mode, check_interval, cycle_count, stats, todo,
                   sleep_left, sleep_frac, cyc, hist>>
    /\ UNCHANGED <<running, statVars, orchVars, pushVars, once, status, signals>>

main_once ==
    \/ once_call
    \/ once_return
    \/ once_except

InitOnce ==
    /\ use_sheets_mode \in BOOLEAN
    /\ check_interval = 1
    /\ spc = "once"
    /\ cycle_count = 0 /\ stats = FreshStats /\ todo = 0
    /\ sleep_left = 0 /\ sleep_frac = 0 /\ cyc = FreshCycle /\ hist = ZeroHist
    /\ once = TRUE /\ exit_code = -1 /\ status = NoStatus
    /\ ZeroStats /\ IdleOrch /\ IdlePush

NextOnce ==
    \/ main_once
    \/ run_sheets_workflow
    \/ run_local_workflow
    \/ finally_block
    \/ signal_handler

SpecOnce == InitOnce /\ [][NextOnce]_vars

\* ======================================= Push Dispatcher and main()
\* verify_webhook_signature (lines 71-88): hmac.compare_digest raises
\* TypeError on a str that is not ASCII.
verify_webhook_signature(signature) ==
    CASE signature = "valid" -> "true"
      [] signature = "invalid" -> "false"
      [] OTHER -> "raise"

\* The POST branch of handle_upload_notification (lines 121-174): the status
\* code, and whether processing_thread.start() was reached.
Missing(body) == required_fields \ body.fields

Answer(code, spawned) == [code |-> code, spawned |-> spawned]

HandlePost(auth, wired, signature, body) ==
    IF auth /\ signature = "absent" THEN Answer(401, FALSE)
    ELSE IF auth /\ verify_webhook_signature(signature) = "raise" THEN Answer(500, FALSE)
    ELSE IF auth /\ verify_webhook_signature(signature) = "false" THEN Answer(401, FALSE)
    ELSE IF body.kind = "unparsable" THEN Answer(500, FALSE)
    ELSE IF body.kind = "falsy" THEN Answer(400, FALSE)
    ELSE IF body.kind = "scalar" THEN Answer(500, FALSE)
    ELSE IF Missing(body) # {} THEN Answer(400, FALSE)
    ELSE IF ~wired THEN Answer(503, FALSE)
    ELSE IF body.kind = "object" THEN Answer(202, TRUE)
    ELSE Answer(500, TRUE)

PushUnchanged == UNCHANGED <<orchVars, schedVars, mainVars, status, signals>>

\* WebhookServer.set_workflow_manager (lines 51-55), called by main() at
\* line 912; afterwards main() waits at lines 917-920.
set_workflow_manager ==
    /\ mpc = "init"
    /\ workflow_manager' = TRUE
    /\ mpc' = "wait"
    /\ UNCHANGED <<enable_auth, req, thread>>
    /\ UNCHANGED <<running, statVars>>
    /\ PushUnchanged

handle_upload_notification ==
    /\ mpc # "exited"
    /\ req.n < MaxRequests
    /\ \E signature \in Signatures, body \in Bodies, identifier \in Identifiers :
         LET a == HandlePost(enable_auth, workflow_manager, signature, body)
             r == req.n + 1
         IN /\ req' = [signature |-> signature, body |-> body,
                       wired |-> workflow_manager, code |-> a.code, spawned |-> a.spawned, n |-> r]
            /\ thread' = [thread EXCEPT ![r] =
                 [state |-> IF a.spawned THEN "started" ELSE "unspawned",
                  object |-> body.kind = "object",
                  outcome |-> "none",
                  identifier |-> IF a.spawned /\ body.kind = "object"
                                 THEN identifier ELSE "none",
                  artifacts |-> "none"]]
    /\ UNCHANGED <<enable_auth, workflow_manager, mpc>>
    /\ UNCHANGED <<running, statVars>>
    /\ PushUnchanged

\* process_upload_async up to the call of process_sheets_application
\* (lines 184-202); data['identifier'] raises on data that is no object and
\* the handler of lines 209-210 ends the thread.
dispatch_begin(r) ==
    /\ thread[r].state = "started"
    /\ thread' = [thread EXCEPT ![r] =
         IF thread[r].object
         THEN [@ EXCEPT !.state = "orchestrating"]
         ELSE [@ EXCEPT !.state = "done", !.outcome = "error"]]
    /\ UNCHANGED <<enable_auth, workflow_manager, req, mpc>>
    /\ UNCHANGED <<running, statVars>>
    /\ PushUnchanged

\* Inside process_sheets_application: processor.process_file has written
\* the item's artifacts into the work folder (main.py lines 352-369).
dispatch_transform(r) ==
    /\ thread[r].state = "orchestrating" /\ thread[r].artifacts = "none"
    /\ thread' = [thread EXCEPT ![r] = [@ EXCEPT !.artifacts = "present"]]
    /\ UNCHANGED <<enable_auth, workflow_manager, req, mpc>>
    /\ UNCHANGED <<running, statVars>>
    /\ PushUnchanged

\* The retry loop has made its last transmit call (main.py lines 376-429).
dispatch_transmit(r) ==
    /\ thread[r].state = "orchestrating"
    /\ thread[r].artifacts = "present"
    /\ thread' = [thread EXCEPT ![r] = [@ EXCEPT !.artifacts = "sent"]]
    /\ UNCHANGED <<enable_auth, workflow_manager, req, mpc>>
    /\ UNCHANGED <<running, statVars>>
    /\ PushUnchanged

\* shutil.rmtree(processing_folder) of the success path (main.py lines
\* 462-469) empties the shared work folder; an error of it is only logged.
Rmtree(t, removed) ==
    IF removed /\ t.state = "orchestrating" /\ t.artifacts = "present"
    THEN [t EXCEPT !.artifacts = "wiped"]
    ELSE t

\* process_sheets_application returns and the result is logged
\* (lines 202-207); LifetimeStats is not written. A True result comes
\* after the transmit stage and the cleanup of the success path.
dispatch_end(r) ==
    /\ thread[r].state = "orchestrating"
    /\ \E o \in OrchOutcomes(TRUE), removed \in BOOLEAN :
         /\ o = "True" => thread[r].artifacts \in {"sent", "wiped"}
         /\ o = "False" => ~removed
         /\ thread' = [q \in 1..MaxRequests |->
                IF q = r
                THEN [thread[r] EXCEPT !.state = "done", !.outcome = o,
                        !.artifacts = IF @ = "wiped" THEN @ ELSE "none"]
                ELSE Rmtree(thread[q], removed)]
    /\ UNCHANGED <<enable_auth, workflow_manager, req, mpc>>
    /\ UNCHANGED <<running, statVars>>
    /\ PushUnchanged

process_upload_async ==
    \E r \in 1..MaxRequests :
        \/ dispatch_begin(r)
        \/ dispatch_transform(r)
        \/ dispatch_transmit(r)
        \/ dispatch_end(r)

\* The wait loop of main() sees running false and returns 0; sys.exit ends
\* the process (lines 919-925, 958-960). The server thread and the dispatch
\* threads are daemon threads (lines 59-62, 157-161 of webhook_server.py):
\* the interpreter stops them where they are.
StoppedAtExit(t) ==
    CASE t.state = "started" -> [t EXCEPT !.state = "killed", !.outcome = "never_ran"]
      [] t.state = "orchestrating" -> [t EXCEPT !.state = "killed", !.outcome = "interrupted"]
      [] OTHER -> t

main_exit ==
    /\ mpc = "wait"
    /\ ~running
    /\ mpc' = "exited"
    /\ thread' = [r \in 1..MaxRequests |-> StoppedAtExit(thread[r])]
    /\ UNCHANGED <<enable_auth, workflow_manager, req>>
    /\ UNCHANGED <<running, statVars>>
    /\ PushUnchanged

InitPush ==
    /\ enable_auth \in BOOLEAN
    /\ workflow_manager = FALSE
    /\ req = NoRequest
    /\ thread = [r \in 1..MaxRequests |-> NoThread]
    /\ mpc = "init"
    /\ ZeroStats /\ IdleOrch /\ IdleSched /\ IdleMain

NextPush ==
    \/ set_workflow_manager
    \/ handle_upload_notification
    \/ process_upload_async
    \/ main_exit
    \/ signal_handler

SpecPush == InitPush /\ [][NextPush]_vars

\* ============================================ GET /webhook/status
\* webhook_status (lines 227-243): `if workflow_manager:` and then the dict
\* display, whose three attribute reads are evaluated in source order; no
\* lock is taken. SpecStatus is the wiring in which the manager handed to
\* set_workflow_manager also runs run_continuous_mode; main() starts only
\* one of the two modes per process (lines 892-946), and then the counters
\* read here never change.
StatusUnchanged ==
    UNCHANGED <<orchVars, running, statVars, schedVars, pushVars, mainVars, signals>>

status_begin ==
    /\ status.pc \in {"idle", "returned"}
    /\ status' = [NoStatus EXCEPT
         !.pc = IF workflow_manager THEN "read_processed" ELSE "returned"]
    /\ StatusUnchanged

read_total_processed ==
    /\ status.pc = "read_processed"
    /\ status' = [status EXCEPT !.total_processed = total_processed,
                                !.pc = "read_successful"]
    /\ StatusUnchanged

read_total_successful ==
    /\ status.pc = "read_successful"
    /\ status' = [status EXCEPT !.total_successful = total_successful,
                                !.pc = "read_failed"]
    /\ StatusUnchanged

read_total_failed ==
    /\ status.pc = "read_failed"
    /\ status' = [status EXCEPT !.total_failed = total_failed,
                                !.pc = "returned"]
    /\ StatusUnchanged

webhook_status ==
    \/ status_begin
    \/ read_total_processed
    \/ read_total_successful
    \/ read_total_failed

InitStatus ==
    /\ use_sheets_mode \in BOOLEAN
    /\ check_interval = 1
    /\ spc = "while"
    /\ cycle_count = 0 /\ stats = FreshStats /\ todo = 0
    /\ sleep_left = 0 /\ sleep_frac = 0 /\ cyc = FreshCycle /\ hist = ZeroHist
    /\ enable_auth = FALSE /\ workflow_manager = FALSE
    /\ req = NoRequest /\ thread = [r \in 1..MaxRequests |-> NoThread]
    /\ mpc = "init"
    /\ ZeroStats /\ IdleOrch /\ IdleMain

NextStatus ==
    \/ run_continuous_mode
    \/ signal_handler
    \/ set_workflow_manager
    \/ webhook_status

SpecStatus == InitStatus /\ [][NextStatus]_vars

\* ============================================================ properties
Sends == Count(trace, "send")
Sleeps == Count(trace, "sleep")
Notifications == Count(trace, "send_error_notification")

\* C1: in process_sheets_application an attempt with total_files > 0 counts as
\* a satisfied send exactly when successful = total_files or
\* 5 * successful >= 4 * total_files.
C1_SatisfiedIffThreshold ==
    (variant = "sheets" /\ send_result.total_files > 0) =>
        (send_success <=>
            \/ send_result.successful = send_result.total_files
            \/ 5 * send_result.successful >= 4 * send_result.total_files)

\* C1 witness: the boundary ratio 4/5 was returned and accepted.
C1_Witness ==
    /\ variant = "sheets"
    /\ send_result = [successful |-> 4, total_files |-> 5]
    /\ send_success

\* C2: with max_retry_attempts = N >= 1 the transmit stage is called at most
\* N times; the attempt that is satisfied is the last call (attempt k makes
\* exactly k calls), and after it neither a transmit nor a retry delay follows.
C2_Bounded ==
    max_retry_attempts >= 1 =>
        /\ Sends <= max_retry_attempts
        /\ send_success => Sends = attempt + 1

C2_StopsAtFirstSatisfied ==
    (max_retry_attempts >= 1 /\ send_success) =>
        /\ Count(trace', "send") = Sends
        /\ Count(trace', "sleep") = Sleeps

C2_AtMostNStopAtFirst == [](C2_Bounded) /\ [][C2_StopsAtFirstSatisfied]_vars

\* C2 witness: N = 3, the second attempt was the first satisfied one, the
\* invocation has finished, and two calls and one delay were made.
C2_Witness ==
    /\ max_retry_attempts = 3 /\ send_success /\ opc = "done"
    /\ Sends = 2 /\ Sleeps = 1

\* C3: once a send is satisfied the invocation returns Success whatever
\* acknowledge and cleanup do.
C3_SuccessAfterSatisfiedSend ==
    (send_success /\ opc = "done") => ret = "True"

\* C8: a transform that succeeds with zero artifacts gives Failure, no
\* transmit attempt, and exactly one Notifier call.
C8_ZeroArtifactsNotifiedOnce ==
    (processed_files = 0 /\ opc = "done") =>
        /\ ret = "False"
        /\ Sends = 0
        /\ Notifications = 1

\* Calls that acknowledge or delete the item at the source.
SourceWrites ==
    {"update_transmission_time", "update_transmission_time_failed",
     "delete_drive_file", "delete_drive_skipped",
     "delete_source_file", "delete_source_failed"}

\* Those of them that took effect: the row is marked, the file is gone.
SourceEffects ==
    {"update_transmission_time", "delete_drive_file", "delete_source_file"}

\* Did the last transmit attempt meet the variant's rule?
LastSendSatisfied ==
    /\ send_result.total_files > 0
    /\ IF variant = "sheets"
       THEN \/ send_result.successful = send_result.total_files
            \/ 5 * send_result.successful >= 4 * send_result.total_files
       ELSE send_result.successful = send_result.total_files

\* C12: the source-side acknowledge and every source deletion happen only
\* after a transmit attempt of the same invocation was satisfied: each such
\* call comes after the last transmit call, and that one was satisfied.
C12_SourceTouchedOnlyAfterSatisfiedSend ==
    \A i \in 1..Len(trace) :
        trace[i] \in SourceWrites =>
            /\ send_success
            /\ LastSendSatisfied
            /\ \E j \in 1..(i - 1) :
                 /\ trace[j] = "send"
                 /\ \A k \in (j + 1)..Len(trace) : trace[k] # "send"

\* C12 witness: a sheets invocation ended after two transmit attempts, the
\* acknowledge and the deletion of the Drive file.
C12_Witness ==
    /\ variant = "sheets" /\ opc = "done" /\ Sends = 2
    /\ Count(trace, "update_transmission_time") = 1
    /\ Count(trace, "delete_drive_file") = 1

\* C13: an invocation that returns Failure leaves its item at the source,
\* neither acknowledged nor deleted.
C13_FailureLeavesItemAtSource ==
    (opc = "done" /\ ret = "False") =>
        \A i \in 1..Len(trace) : trace[i] \notin SourceEffects

\* C14: an invocation calls the Notifier when it fails by fetch failure, by
\* transform failure, or by send failure after exhausting all retries, and
\* never on account of an acknowledge or cleanup failure.
C14_NotifiedOnStageFailuresOnly ==
    (opc = "done" /\ max_retry_attempts >= 1) =>
        LET failed == ret # "True"
            transformed == Count(trace, "process_file") > 0
            fetch_failure == failed /\ ~transformed
            transform_failure == failed /\ transformed /\ processed_files <= 0
            send_exhausted == failed /\ ~send_success /\ Sends = max_retry_attempts
            after_send_failure == failed /\ send_success
        IN  /\ (fetch_failure \/ transform_failure \/ send_exhausted) => Notifications >= 1
            /\ after_send_failure => Notifications = 0

\* C15: an invocation never raises to its caller: whichever stage or
\* collaborator call fails or raises, the Notifier call of a failure handler
\* included, both variants return Success or Failure.
C15_NeverRaises ==
    opc = "done" => ret \in {"True", "False"}

\* The stage a call of process_sheets_application belongs to, in the
\* documented order: locate, fetch (download, file info), transform,
\* transmit (attempts and delays), acknowledge, source deletion, local
\* cleanup, work-directory cleanup.
StageRank(e) ==
    CASE e \in {"find_file_in_drive", "find_file_in_drive_none"} -> 1
      [] e \in {"download_file_from_drive", "download_file_from_drive_none"} -> 2
      [] e = "create_file_info_for_processing" -> 3
      [] e = "process_file" -> 4
      [] e \in {"send", "sleep"} -> 5
      [] e \in {"update_transmission_time", "update_transmission_time_failed"} -> 6
      [] e \in {"delete_drive_file", "delete_drive_skipped"} -> 7
      [] e = "cleanup_local_file" -> 8
      [] e = "rmtree" -> 9
      [] OTHER -> 0

\* Call b comes right after call a in the documented order.
NextInOrder(a, b) ==
    \/ StageRank(b) = StageRank(a) + 1
    \/ StageRank(a) = 5 /\ StageRank(b) = 5

\* C19: within one process_sheets_application the stages run strictly in the
\* order locate, fetch, transform, transmit (all attempts), acknowledge,
\* cleanup; no later stage is called after locate, fetch, transform or the
\* exhausted transmit failed; acknowledge precedes source deletion and
\* local cleanup.
C19_StagesInOrder ==
    variant = "sheets" =>
        /\ trace # <<>> => StageRank(trace[1]) = 1
        /\ \A i \in 2..Len(trace) : NextInOrder(trace[i - 1], trace[i])
        /\ ~send_success => \A i \in 1..Len(trace) : StageRank(trace[i]) <= 5

\* C19 as amended: the same, except that after a failed transform or an
\* exhausted transmit the local temporary copy is removed
\* (cleanup_local_file) as the last call, without an acknowledge.
C19_StagesInOrderLocalCleanup ==
    variant = "sheets" =>
        /\ trace # <<>> => StageRank(trace[1]) = 1
        /\ \A i \in 2..Len(trace) :
             \/ NextInOrder(trace[i - 1], trace[i])
             \/ /\ trace[i] = "cleanup_local_file"
                /\ ~send_success
                /\ i = Len(trace)
                /\ trace[i - 1] \in {"process_file", "send", "sleep"}
        /\ ~send_success =>
             \A i \in 1..Len(trace) :
                 StageRank(trace[i]) > 5 => trace[i] = "cleanup_local_file"

\* C19 witness: every one of two transmit attempts was unsatisfied and the
\* invocation ended with the removal of the local copy.
C19_Witness ==
    /\ variant = "sheets" /\ opc = "done" /\ ~send_success
    /\ max_retry_attempts = 2 /\ Sends = 2
    /\ trace[Len(trace)] = "cleanup_local_file"

\* C20: between any two consecutive transmit attempts of one invocation
\* exactly one retry delay is slept, whatever made the earlier attempt
\* unsatisfied: a transmit call is never followed directly by another, and a
\* delay stands between one attempt and the next.
C20_OneDelayBetweenAttempts ==
    \A i \in 1..(Len(trace) - 1) :
        /\ trace[i] = "send" => trace[i + 1] # "send"
        /\ trace[i] = "sleep" => trace[i + 1] = "send"
        /\ trace[i + 1] = "sleep" => trace[i] = "send"

\* C21: process_single_workflow applies the same send-satisfied policy as
\* process_sheets_application: on every transmit outcome it reaches the
\* decision process_sheets_application reaches on that outcome, and so makes
\* the same number of attempts.
C21_SingleDecidesAsSheets ==
    (variant = "single" /\ send_result.total_files > 0) =>
        (send_success <=>
            SheetsSatisfied(send_result.successful, send_result.total_files))

\* The Cycle Driver and the Push Dispatcher take one invocation as a single
\* step with a result in OrchOutcomes: no invocation ends with anything else.
OrchestratorEndsInOutcomes ==
    opc = "done" => ret \in OrchOutcomes(variant = "sheets")

\* ---- Polling Scheduler
\* The scheduler is between cycles: the cycle's bookkeeping is done.
BetweenCycles ==
    spc \in {"post", "sleep_loop", "sleeping", "fraction", "sleeping_fraction",
             "while", "stopped"}

\* C4: with no push activity, after C completed cycles each LifetimeStats
\* counter equals the sum of the corresponding CycleStats field of those cycles.
C4_LifetimeEqualsSumOfCycles ==
    BetweenCycles =>
        /\ total_processed = hist.processed
        /\ total_successful = hist.successful
        /\ total_failed = hist.failed

\* What the loop keeps: the cycles whose run_full_workflow returned are
\* summed; a cycle whose run_full_workflow raised adds 1 to total_failed only.
LifetimeEqualsSumOfReturnedCycles ==
    BetweenCycles =>
        /\ total_processed = hist.processed - hist.lost_processed
        /\ total_successful = hist.successful - hist.lost_successful
        /\ total_failed = hist.failed - hist.lost_failed + hist.raised

\* C5: once running is cleared no cycle starts, and no sleep starts: neither
\* another whole-second slice nor the fractional remainder.
C5_Step ==
    ~running =>
        /\ cycle_count' = cycle_count
        /\ spc' \in {"sleeping", "sleeping_fraction"} => spc' = spc

C22_Step ==
    /\ ~running => ~running'
    /\ (~running /\ signals' # signals) =>
         UNCHANGED <<orchVars, running, statVars, schedVars, pushVars, mainVars, status>>

C22_RunningOnlyCleared == (running = TRUE) /\ [][C22_Step]_vars

\* C22 witness: a second signal has arrived with the scheduler in the middle
\* of a sleep slice.
C22_Witness == signals = 2 /\ ~running /\ spc = "sleeping"

\* C23: if running is cleared while a cycle is in flight, the Orchestrator
\* invocation in progress is not interrupted, all remaining pending items of
\* the cycle are still processed, the cycle's CycleStats are added to
\* LifetimeStats, and only then does the Scheduler stop, without sleeping.
C23_Step ==
    ~running =>
        /\ (spc = "items" /\ cyc'.orchestrated # cyc.orchestrated) =>
               /\ todo' = todo - 1
               /\ stats'.processed_files = stats.processed_files + 1
        /\ (spc = "finally" /\ spc' # spc) =>
               /\ cyc.orchestrated = stats.pending
               /\ spc' = "update_processed"
        /\ (spc = "post" /\ spc' # spc) => spc' = "stopped"

C23_InFlightCycleCompletes == [][C23_Step]_vars

\* C24: once running is cleared, and provided every stage call of the cycle
\* in flight returns, the Polling Scheduler eventually reaches Stopped (the
\* loop of run_continuous_mode exits); Stopped is never reached while running
\* is still true.
C24_EventuallyStopped ==
    /\ ~running ~> spc = "stopped"
    /\ [](spc = "stopped" => ~running)

\* C24 witness: the scheduler has stopped after a signal that came in the
\* middle of the item loop of its second cycle.
C24_Witness ==
    /\ spc = "stopped" /\ ~running
    /\ cycle_count = 2 /\ cyc.orchestrated >= 1

\* C25: when a cycle's elapsed duration is at least the interval the
\* Scheduler sleeps nothing and goes straight to the next loop test; when it
\* is less, the slices slept without cancellation add up to exactly interval
\* minus elapsed (all in half seconds).
C25_Slept ==
    (spc = "while" /\ running /\ cyc.elapsed >= 0) =>
        cyc.slept = IF cyc.elapsed >= 2 * check_interval THEN 0
                    ELSE 2 * check_interval - cyc.elapsed

C25_Step ==
    (spc = "post" /\ cyc'.elapsed >= 2 * check_interval) => spc' = "while"

C25_SleepsRemainderOrNothing == [](C25_Slept) /\ [][C25_Step]_vars

\* C25 witness: with an interval of 2 s a cycle took 0.5 s and 1.5 s were
\* slept, one whole slice and the fraction, with running still true.
C25_Witness ==
    /\ spc = "while" /\ running /\ check_interval = 2
    /\ cyc.elapsed = 1 /\ cyc.slept = 3

\* C26: every cycle that passes the connectivity probe ends by invoking the
\* cleanup of old artifacts, in both Cycle Drivers, cycles with an empty
\* pending list included.
C26_CleanupAfterEveryProbedCycle ==
    (cyc.finalized /\ cyc.probe = "true") => cyc.cleaned

\* C7: in both Cycle Driver variants a false connectivity probe leaves the
\* cycle with nothing processed, no Orchestrator invocation, no pending-list
\* query, and a system-level error notification issued.
C7_ProbeFailureNotified ==
    (cyc.probe = "false" /\ cyc.finalized) =>
        /\ stats.processed_files = 0
        /\ cyc.orchestrated = 0
        /\ cyc.pending_queries = 0
        /\ cyc.notified >= 1

\* C16: in a cycle whose pending list has n items every item is orchestrated
\* exactly once, whatever the Orchestrator returned or raised for the items
\* before it.
C16_EveryItemOrchestratedOnce ==
    cyc.finalized => cyc.orchestrated = stats.pending

\* Positions inside run_sheets_workflow / run_local_workflow.
InCycleDriver ==
    {"probe", "pending", "items", "local_cleanup", "local_except", "finally"}

\* C17: every Cycle Driver invocation finalizes CycleStats (end_time and
\* duration set) and logs it before it returns or raises, on every path:
\* connectivity abort, empty pending list, normal completion, error in the
\* middle of the item loop.
C17_Step ==
    (spc \in InCycleDriver /\ spc' \notin InCycleDriver) =>
        /\ cyc'.finalized
        /\ spc = "finally"

C17_AlwaysFinalized == [][C17_Step]_vars

\* C17 witness: a local cycle of two items was cut short by an error of the
\* first one and has handed control back, finalized.
C17_Witness ==
    /\ ~use_sheets_mode /\ stats.pending = 2 /\ cyc.orchestrated = 1
    /\ stats.processed_files = 0
    /\ spc \notin InCycleDriver /\ cyc.finalized

\* ---- main() with --once
\* C11: in single-run mode the exit code is 0 exactly when every item of the
\* cycle succeeded, 2 exactly when at least one item succeeded and at least
\* one failed, and 1 when all items failed or the cycle hit a fatal error
\* such as a connectivity probe that returned false.
C11_ExitCodes ==
    (once /\ spc = "exited") =>
        LET fatal == cyc.probe # "true"
            all_succeeded == stats.successful_transfers = stats.pending
            all_failed == stats.pending > 0 /\ stats.failed_transfers = stats.pending
            mixed == stats.successful_transfers > 0 /\ stats.failed_transfers > 0
        IN  /\ exit_code = 0 <=> (~fatal /\ all_succeeded)
            /\ exit_code = 2 <=> (~fatal /\ mixed)
            /\ (fatal \/ all_failed) => exit_code = 1

\* ---- GET /webhook/status
\* Every whole update of run_sheets_workflow's stats adds as many processed
\* items as successful and failed ones together, so LifetimeStats between
\* whole updates is balanced in Sheets mode.
WholeUpdatesBalance ==
    (use_sheets_mode /\ BetweenCycles) =>
        total_processed = total_successful + total_failed

Requests == 1..MaxRequests
ReachedOrchestrator(r) ==
    thread[r].state = "orchestrating" \/ thread[r].outcome \in {"True", "False"}

\* C6: after n valid notifications have all completed successfully,
\* total_processed = n and total_successful = n, total_failed unchanged.
C6_PushUpdatesLifetimeStats ==
    LET done == {r \in Requests : thread[r].state = "done" /\ thread[r].outcome = "True"}
    IN  (\A r \in Requests : thread[r].state = "none" \/ r \in done) =>
            /\ total_processed = Cardinality(done)
            /\ total_successful = Cardinality(done)
            /\ total_failed = 0

\* C9: every POST is answered 401 (signed-request mode, signature absent or
\* invalid), else 400 (body empty or a required field missing), else 503
\* (manager not wired), else 202; a dispatch starts exactly with a 202.
C9_ResponseCodes ==
    req.n > 0 =>
        LET b == req.body
            expected ==
                IF enable_auth /\ req.signature # "valid" THEN 401
                ELSE IF b.kind # "object" \/ required_fields \ b.fields # {} THEN 400
                ELSE IF ~req.wired THEN 503
                ELSE 202
        IN  /\ req.code = expected
            /\ req.spawned <=> req.code = 202

\* What the handler answers, stated apart from HandlePost: 401 for an absent
\* or non-matching ASCII signature under signed-request mode; else 500 when
\* handling raises (non-ASCII signature, unparsable body, JSON number or true,
\* JSON string or array that passes the field test with the manager wired);
\* else 400 for an empty body or a missing field; else 503 when not wired;
\* else 202. A dispatch thread starts for the 202 answers and for the 500
\* answers to a string or array; only dispatches of 202 answers reach the
\* Orchestrator.
PostAnswersWithErrors ==
    /\ req.n > 0 =>
        LET b == req.body
            missing == required_fields \ b.fields
            raises ==
                \/ enable_auth /\ req.signature = "non_ascii"
                \/ b.kind \in {"unparsable", "scalar"}
                \/ b.kind = "str_or_list" /\ missing = {} /\ req.wired
            expected ==
                IF enable_auth /\ req.signature \in {"absent", "invalid"} THEN 401
                ELSE IF raises THEN 500
                ELSE IF b.kind = "falsy" \/ missing # {} THEN 400
                ELSE IF ~req.wired THEN 503
                ELSE 202
        IN  /\ req.code = expected
            /\ req.spawned <=>
                 \/ req.code = 202
                 \/ /\ req.code = 500 /\ b.kind = "str_or_list" /\ missing = {}
                    /\ (enable_auth => req.signature = "valid")
            /\ thread[req.n].object => (req.spawned <=> req.code = 202)
            /\ missing # {} => ~req.spawned
    /\ \A r \in Requests : ReachedOrchestrator(r) => thread[r].object

\* C29: each LifetimeStats counter (total_processed, total_successful,
\* total_failed) starts at zero and no step of the scheduler, of a cycle or
\* of the signal handler decreases it.
C29_Step ==
    /\ total_processed' >= total_processed
    /\ total_successful' >= total_successful
    /\ total_failed' >= total_failed

C29_TotalsStartAtZeroAndNeverDecrease ==
    /\ (total_processed = 0 /\ total_successful = 0 /\ total_failed = 0)
    /\ [][C29_Step]_vars

C29_Witness ==
    /\ cycle_count = 2 /\ signals > 0
    /\ total_processed >= 2 /\ total_successful >= 1 /\ total_failed >= 1

\* C27: at no time are two Orchestrator invocations for the same WorkItem
\* identifier in progress together.
C27_OneInvocationPerIdentifier ==
    \A r1, r2 \in Requests :
        (r1 # r2 /\ thread[r1].state = "orchestrating"
                 /\ thread[r2].state = "orchestrating") =>
            thread[r1].identifier # thread[r2].identifier

\* C28: concurrent invocations share no mutable state but LifetimeStats and
\* the running flag: the cleanup of one invocation never removes artifacts
\* another invocation has produced and not yet finished transmitting.
C28_ArtifactsNeverWiped ==
    \A r \in Requests : thread[r].artifacts # "wiped"

\* C10: the Orchestrator invocation of a dispatch that has started is never
\* cut short by the clearing of running and the return of main().
C10_DispatchRunsToCompletion ==
    \A r \in Requests : ~(thread[r].state = "killed" /\ thread[r].outcome = "interrupted")

\* C30: a fetch failure (find_file_in_drive or download_file_from_drive
\* returning nothing) ends process_sheets_application at once with False:
\* the failed call is the last call of the invocation, locate and fetch were
\* each called at most once, and neither process_file nor send was called.
FetchFailure(e) == e \in {"find_file_in_drive_none", "download_file_from_drive_none"}

C30_FetchFailureEndsAtOnce ==
    (\E i \in 1..Len(trace) : FetchFailure(trace[i])) =>
        /\ FetchFailure(trace[Len(trace)])
        /\ opc = "done" /\ ret = "False"
        /\ Cardinality({i \in 1..Len(trace) : StageRank(trace[i]) = 1}) <= 1
        /\ Cardinality({i \in 1..Len(trace) : StageRank(trace[i]) = 2}) <= 1
        /\ \A i \in 1..Len(trace) : StageRank(trace[i]) \notin {3, 4, 5}

C30_Witness ==
    /\ trace = <<"find_file_in_drive", "download_file_from_drive_none">>
    /\ opc = "done" /\ ret = "False"

\* C31: after every completed iteration of the while loop of
\* run_continuous_mode, total_processed = total_successful + total_failed,
\* also after an iteration whose run_full_workflow raised.
C31_LifetimeBalanced ==
    BetweenCycles => total_processed = total_successful + total_failed

\* C32: the stats run_sheets_workflow or run_local_workflow returns satisfy
\* processed_files = successful_transfers + failed_transfers and
\* processed_files <= the number of pending items, on every exit path, a
\* return after an error in the middle of the item loop included.
C32_ReturnedCycleStatsBalanced ==
    spc = Returns =>
        /\ stats.processed_files = stats.successful_transfers + stats.failed_transfers
        /\ stats.processed_files <= stats.pending

C32_Witness ==
    /\ ~use_sheets_mode /\ spc = Returns
    /\ cyc.notified = 1 /\ ~cyc.propagate
    /\ stats.pending = 2 /\ stats.processed_files = 1
    /\ stats.failed_transfers = 1

\* download_file_from_drive returned a local path: the invocation went on
\* to create_file_info_for_processing.
Downloaded == \E i \in 1..Len(trace) : StageRank(trace[i]) = 3

\* C33: once process_sheets_application has downloaded the item to a local
\* path, every return of the invocation (transform failure, no artifacts,
\* exhausted retries, success, or an error caught by the outer handler) comes
\* after a cleanup_local_file call.
C33_LocalFileCleanedBeforeReturn ==
    (variant = "sheets" /\ opc = "done" /\ Downloaded) =>
        \E i \in 1..Len(trace) : trace[i] = "cleanup_local_file"

\* What holds of the retry delays in both variants: at most
\* max_retry_attempts - 1 of them, none after the last permitted attempt,
\* and an invocation whose attempts are used up without a satisfied send
\* never returns True.
RetryDelaysBounded ==
    /\ Sleeps <= (IF max_retry_attempts > 0 THEN max_retry_attempts - 1 ELSE 0)
    /\ \A i \in 1..Len(trace) :
         trace[i] = "sleep" => Count(SubSeq(trace, 1, i), "send") < max_retry_attempts
    /\ (opc = "done" /\ ~send_success /\ max_retry_attempts > 0
            /\ Sends = max_retry_attempts) => ret \in {"False", "raised"}

\* C34: an invocation never sleeps the retry delay after its last permitted
\* transmit attempt: with max_retry_attempts = N there are at most N - 1
\* delays, no delay follows attempt N, and an invocation whose N attempts
\* all fail returns False.
C34_NoDelayAfterLastAttempt ==
    /\ Sleeps <= (IF max_retry_attempts > 0 THEN max_retry_attempts - 1 ELSE 0)
    /\ \A i \in 1..Len(trace) :
         trace[i] = "sleep" => Count(SubSeq(trace, 1, i), "send") < max_retry_attempts
    /\ (opc = "done" /\ ~send_success /\ max_retry_attempts > 0
            /\ Sends = max_retry_attempts) => ret = "False"

\* What holds with max_retry_attempts <= 0 in both variants: range() is
\* empty, so no send is made, the source is not touched and the invocation
\* does not return True.
NoRetriesNoTransmit ==
    (max_retry_attempts <= 0 /\ processed_files > 0) =>
        /\ Sends = 0 /\ Sleeps = 0
        /\ \A i \in 1..Len(trace) :
             trace[i] \notin SourceWrites \cup {"complete_transfer_process"}
        /\ opc = "done" => ret \in {"False", "raised"}

\* C35: with max_retry_attempts configured as 0 or negative, an invocation
\* that reaches the transmit stage makes no transmit attempt, returns False,
\* and performs no acknowledge and no source deletion.
C35_NoRetriesFailsWithoutTransmit ==
    (max_retry_attempts <= 0 /\ processed_files > 0) =>
        /\ Sends = 0
        /\ \A i \in 1..Len(trace) :
             trace[i] \notin SourceWrites \cup {"complete_transfer_process"}
        /\ opc = "done" => ret = "False"


====
